---- MODULE Spec2Model ----
(***************************************************************************)
(* Model of server.js: the three HTTP handlers of the creative-strategy    *)
(* assistant backend.                                                      *)
(*                                                                         *)
(*   POST /api/save-email     SaveEmail          (SpecEmail)               *)
(*   POST /api/chat           Chat* actions      (SpecChat)                *)
(*   POST /api/analyze-video  Analyze* actions   (SpecVideo)               *)
(*                                                                         *)
(* Node runs every handler on one event loop: the code between two awaits  *)
(* runs without interleaving, so one action is one such run, from the      *)
(* event that resumes the handler up to its next await or its return.      *)
(* Characters are one-element strings; "LF", "TAB" and "SP" stand for the  *)
(* line feed, the tab and the space.  A JavaScript string is a sequence of *)
(* characters.                                                             *)
(***************************************************************************)
EXTENDS Integers, Sequences, FiniteSets, TLC

VARIABLES
    \* ---- POST /api/save-email
    log,          \* contents of emails.txt, a sequence of characters
    emailPc,      \* "idle", "pending" (a request has arrived), "done"
    emailReq,     \* req.body.email of the request
    emailRes,     \* the response sent to it
    emailConsole, \* what the handler printed: "saved", "failed" or "none"
    \* ---- POST /api/chat
    chatPc,       \* "idle", "streaming" (awaiting the next stream event), "done"
    chatReq,      \* req.body.messages
    chatStatus,   \* HTTP status sent (0: none yet)
    sseHeaders,   \* the event-stream headers were flushed
    modelStreams, \* number of anthropic.messages.stream calls
    emitted,      \* the events the model stream has yielded so far
    written,      \* the frames written to the response with res.write
    ended,        \* res.end() was called
    destroyed,    \* res.destroyed
    chatOutcome,  \* how the stream finished: "none", "complete", "error", "aborted"
    \* ---- POST /api/analyze-video
    vPc,          \* "idle", "download", "transcript", "probe", "frames", "model", "done"
    vUrl,         \* req.body.url
    dirExists,    \* tempDir exists
    videoFile,    \* tempDir holds a video.* file that is no .vtt
    subFile,      \* tempDir holds a .vtt file
    frameFiles,   \* the i for which framesDir holds frame0i.jpg
    running,      \* the i whose ffmpeg process has not completed
    transcript,   \* let transcript
    duration,     \* let duration, in hundredths of a second
    frameBuffers, \* the frames read, as the sequence of their indices
    modelCalls,   \* number of anthropic.messages.create calls
    vRes,         \* the response sent
    errMessage,   \* err.message in the catch block, as lower-case words
    endedAt,      \* the step the handler ended at
    download,     \* what the download did (environment)
    readable,     \* the frame files that could be read (environment)
    modelResult,  \* what the model call did (environment)
    rmResult,     \* what fs.rmSync did: "none", "removed", "failed" (environment)
    swallowed,    \* the optional steps whose failure a catch swallowed
    frameTimes,   \* the -ss argument of ffmpeg process i, in hundredths of a second
    vTrace,       \* the steps the handler has started, in order
    \* ---- two POST /api/analyze-video requests and the temporary directory
    clock,        \* Date.now()
    wPc,          \* per request: "idle", "download", "cleanup", "done"
    wToken,       \* per request: what Math.random().toString(36).slice(2) gave it
    wAt,          \* per request: what Date.now() gave it
    wDir,         \* per request: its sessionId, which names its tempDir
    wSaw,         \* per request: the requests whose files it found in its tempDir
    tmpDirs,      \* os.tmpdir(): the analyze-* directories that exist, by sessionId
    tmpFiles      \* os.tmpdir(): the files in them, each with the request that wrote it

emailVars == <<log, emailPc, emailReq, emailRes, emailConsole>>
chatVars == <<chatPc, chatReq, chatStatus, sseHeaders, modelStreams, emitted,
              written, ended, destroyed, chatOutcome>>
videoVars == <<vPc, vUrl, dirExists, videoFile, subFile, frameFiles, running, transcript,
               duration, frameBuffers, modelCalls, vRes, errMessage, endedAt, download,
               readable, modelResult, rmResult, swallowed, frameTimes,
               vTrace>>
workVars == <<clock, wPc, wToken, wAt, wDir, wSaw, tmpDirs, tmpFiles>>
vars == <<emailVars, chatVars, videoVars, workVars>>

Range(s) == {s[i] : i \in 1..Len(s)}

\* ------------------------------------------------------------------ bounds
MaxEmailLen == 5
MaxLogLen == 18
MaxEvents == 3
MaxMessages == 2
MaxTokens == 2
MaxClock == 2
MaxUnreadable == 1

\* ============================================================ save-email
Whitespace == {"SP", "TAB", "LF"}
EmailAlphabet == {"a", "@", ".", "LF"}
Strings(alphabet, n) == UNION {[1..k -> alphabet] : k \in 0..n}

\* req.body.email: absent, or a string
Undefined == [defined |-> FALSE, str |-> <<>>]
EmailInputs ==
    {Undefined} \cup {[defined |-> TRUE, str |-> s] : s \in Strings(EmailAlphabet, MaxEmailLen)}

NoSpaceAtRun_AllowsWhitespace(s, from, to) ==
    /\ from <= to
    /\ \A k \in from..to : s[k] # "@"

\* [^\s@]+ on the slice s[from..to]
NoSpaceAtRun(s, from, to) ==
    /\ from <= to
    /\ \A k \in from..to : s[k] \notin Whitespace \cup {"@"}

EmailRegexTest_NoDot(s) ==
    \E i \in 1..Len(s) :
        /\ s[i] = "@"
        /\ NoSpaceAtRun(s, 1, i - 1)
        /\ NoSpaceAtRun(s, i + 1, Len(s))

\* /^[^\s@]+@[^\s@]+\.[^\s@]+$/.test(s)
EmailRegexTest(s) ==
    \E i \in 1..Len(s), j \in 1..Len(s) :
        /\ s[i] = "@"
        /\ s[j] = "."
        /\ NoSpaceAtRun(s, 1, i - 1)
        /\ NoSpaceAtRun(s, i + 1, j - 1)
        /\ NoSpaceAtRun(s, j + 1, Len(s))

\* the negation of: !email || !regex.test(email)
IsValidEmail(e) == e.defined /\ e.str # <<>> /\ EmailRegexTest(e.str)

ValidEmailInputs == {e \in EmailInputs : IsValidEmail(e)}

\* new Date().toISOString(): digits, "-", ":", ".", "T" and "Z", no whitespace
ToISOString == <<"T", "Z">>

\* `${new Date().toISOString()}\t${email}\n`
Entry(e) == ToISOString \o <<"TAB">> \o e.str \o <<"LF">>

Prefix(s, n) == SubSeq(s, 1, n)

InvalidEmailResponse == [status |-> 400, body |-> "error: Invalid email address"]
SavedResponse == [status |-> 200, body |-> "success: true"]
AppendFailedResponse_500 == [status |-> 500, body |-> "error"]
AppendFailedResponse == [status |-> 200, body |-> "success: true"]

\* fs.appendFileSync(emails.txt, entry) returned: the whole entry is in the file
AppendWrites(entry) == entry

\* The handler, whole.  appendFileSync either writes the entry, or throws
\* having written n < Len(entry) characters of it (n = 0: the open failed).
SaveEmail ==
    /\ emailPc = "pending"
    /\ emailPc' = "done"
    /\ IF ~IsValidEmail(emailReq)
       THEN /\ emailRes' = InvalidEmailResponse
            /\ emailConsole' = "none"
            /\ log' = log
       ELSE \/ /\ log' = log \o AppendWrites(Entry(emailReq))
               /\ emailConsole' = "saved"
               /\ emailRes' = SavedResponse
            \/ /\ \E n \in 0..(Len(Entry(emailReq)) - 1) :
                      log' = log \o Prefix(Entry(emailReq), n)
               /\ emailConsole' = "failed"
               /\ emailRes' = AppendFailedResponse
    /\ UNCHANGED <<emailReq, chatVars, videoVars, workVars>>

\* a request reaches the server (while the file has room for one more entry)
Str(s) == [defined |-> TRUE, str |-> s]
EmailSamples ==
    {Undefined, Str(<<>>), Str(<<"a", "@", "a", ".", "a">>), Str(<<".", "@", "a", ".", "a">>),
     Str(<<"a", "a", ".", "a">>), Str(<<"a", "@", "a", "a">>),
     Str(<<"a", "@", "LF", ".", "a">>)}
MaxEntryLen == Len(ToISOString) + 2 + MaxEmailLen

EmailArrives(e) ==
    /\ emailPc \in {"idle", "done"}
    /\ Len(log) + MaxEntryLen <= MaxLogLen
    /\ emailPc' = "pending"
    /\ emailReq' = e
    /\ emailRes' = [status |-> 0, body |-> ""]
    /\ emailConsole' = "none"
    /\ UNCHANGED <<log, chatVars, videoVars, workVars>>

NextEmail ==
    \/ \E e \in EmailSamples : EmailArrives(e)
    \/ SaveEmail

\* one request, any string: the file holds what earlier requests left
InitialLogs == {<<>>, Entry(Str(<<"a", "@", "a", ".", "a">>))}
NextEmailOnce == SaveEmail

\* ================================================================== chat
Fragments == {"Hello", " there"}

TextDelta(f) == [type |-> "content_block_delta", delta |-> "text_delta", text |-> f]
\* the events of a message stream: text deltas, other deltas, other events
Events ==
    {TextDelta(f) : f \in Fragments}
    \cup {[type |-> "content_block_delta", delta |-> "input_json_delta", text |-> "{"],
          [type |-> "message_start", delta |-> "none", text |-> ""]}

\* req.body.messages: absent, a string, or an array of n turns
MessagesInputs ==
    {[kind |-> "undefined", length |-> 0]}
    \cup {[kind |-> "string", length |-> n] : n \in 0..MaxMessages}
    \cup {[kind |-> "array", length |-> n] : n \in 0..MaxMessages}

\* the negation of: !Array.isArray(messages) || messages.length === 0
ValidMessages_NoLength(m) == m.kind = "array"
ValidMessages(m) == m.kind = "array" /\ m.length # 0

\* the frames of the event stream
TextFrame(t) == [data |-> "text", text |-> t]
ErrorFrame == [data |-> "error", text |-> "Something went wrong. Please try again."]
DoneFrame == [data |-> "[DONE]", text |-> ""]

\* the body of the for-await loop after the res.destroyed check
WriteEvent_AnyDelta(w, ev) ==
    IF ev.type = "content_block_delta" THEN Append(w, TextFrame(ev.text)) ELSE w
WriteEvent(w, ev) ==
    IF ev.type = "content_block_delta" /\ ev.delta = "text_delta"
    THEN Append(w, TextFrame(ev.text))
    ELSE w

\* if (res.destroyed) break;
LoopBreaks_Never(d) == FALSE
LoopBreaks(d) == d

\* catch: if (!res.destroyed) res.write(error event)
CatchWrites_Nothing(w, d) == w
CatchWrites(w, d) == IF ~d THEN Append(w, ErrorFrame) ELSE w

\* finally: if (!res.destroyed) { res.write('data: [DONE]\n\n'); res.end(); }
FinallyWrites(w, d) == IF ~d THEN Append(w, DoneFrame) ELSE w
FinallyEnds(d) == ~d

ChatRequest(m) ==
    /\ chatPc = "idle"
    /\ chatReq' = m
    /\ IF ~ValidMessages(m)
       THEN /\ chatStatus' = 400
            /\ chatPc' = "done"
            /\ UNCHANGED <<sseHeaders, modelStreams>>
       ELSE /\ chatStatus' = 200
            /\ sseHeaders' = TRUE
            /\ modelStreams' = modelStreams + 1
            /\ chatPc' = "streaming"
    /\ UNCHANGED <<emitted, written, ended, destroyed, chatOutcome, emailVars, videoVars, workVars>>

\* the stream yields an event
ChatEvent(ev) ==
    /\ chatPc = "streaming"
    /\ Len(emitted) < MaxEvents
    /\ emitted' = Append(emitted, ev)
    /\ IF LoopBreaks(destroyed)
       THEN /\ written' = FinallyWrites(written, destroyed)
            /\ ended' = FinallyEnds(destroyed)
            /\ chatOutcome' = "aborted"
            /\ chatPc' = "done"
       ELSE /\ written' = WriteEvent(written, ev)
            /\ UNCHANGED <<ended, chatOutcome, chatPc>>
    /\ UNCHANGED <<chatReq, chatStatus, sseHeaders, modelStreams, destroyed, emailVars, videoVars, workVars>>

\* the stream is exhausted: the loop ends, finally runs
ChatComplete ==
    /\ chatPc = "streaming"
    /\ written' = FinallyWrites(written, destroyed)
    /\ ended' = FinallyEnds(destroyed)
    /\ chatOutcome' = "complete"
    /\ chatPc' = "done"
    /\ UNCHANGED <<chatReq, chatStatus, sseHeaders, modelStreams, emitted, destroyed,
                   emailVars, videoVars, workVars>>

\* the stream throws (on creation or on any await): catch, then finally
ChatError ==
    /\ chatPc = "streaming"
    /\ written' = FinallyWrites(CatchWrites(written, destroyed), destroyed)
    /\ ended' = FinallyEnds(destroyed)
    /\ chatOutcome' = "error"
    /\ chatPc' = "done"
    /\ UNCHANGED <<chatReq, chatStatus, sseHeaders, modelStreams, emitted, destroyed,
                   emailVars, videoVars, workVars>>

\* the caller's socket closes: the event loop sets res.destroyed
ChatDisconnect ==
    /\ chatPc = "streaming"
    /\ ~destroyed
    /\ destroyed' = TRUE
    /\ UNCHANGED <<chatPc, chatReq, chatStatus, sseHeaders, modelStreams, emitted,
                   written, ended, chatOutcome, emailVars, videoVars, workVars>>

NextChat ==
    \/ \E m \in MessagesInputs : ChatRequest(m)
    \/ \E ev \in Events : ChatEvent(ev)
    \/ ChatComplete
    \/ ChatError
    \/ ChatDisconnect

\* ========================================================= analyze-video
\* A message or a command line is the sequence of its lower-case words; a
\* regular expression that searches for one of several literals is the set of
\* those literals, and matches when one of them occurs.
RegexTest(pattern, msg) == \E i \in 1..Len(msg) : msg[i] \in pattern

\* req.body.url: absent, or a string
NoUrl == [defined |-> FALSE, str |-> <<>>]
UrlInputs ==
    {NoUrl,
     [defined |-> TRUE, str |-> <<>>],
     [defined |-> TRUE, str |-> <<"https://", "example.com", "/v">>],
     [defined |-> TRUE, str |-> <<"https://", "youtube.com", "/watch">>],
     [defined |-> TRUE, str |-> <<"https://", "tiktok.com", "/v">>],
     [defined |-> TRUE, str |-> <<"https://", "instagram.com", "/reel">>]}

detectPlatform_Lenient(url) ==
    IF RegexTest({"tiktok.com"}, url) THEN "tiktok"
    ELSE IF RegexTest({"instagram.com"}, url) THEN "instagram"
    ELSE "youtube"

detectPlatform(url) ==
    IF RegexTest({"youtube.com", "youtu.be"}, url) THEN "youtube"
    ELSE IF RegexTest({"tiktok.com"}, url) THEN "tiktok"
    ELSE IF RegexTest({"instagram.com"}, url) THEN "instagram"
    ELSE "null"

\* const frameCount = 8
FrameCount == 8
FrameIds == 0..(FrameCount - 1)

\* the yt-dlp command line of the download
DownloadCmd(url) ==
    <<"yt-dlp", "-o", "video.%(ext)s", "--no-playlist", "--max-filesize", "150m",
      "--match-filter", "duration", "<", "1200", "-f", "bestvideo[height<=480]">> \o url

\* child_process.exec rejects with the message `Command failed: ${cmd}\n${stderr}`
ExecError(cmd, stderr) == <<"command", "failed:">> \o cmd \o stderr

\* what the download can do.  yt-dlp exits 0 without a file when the match
\* filter or the size limit skips the video, and non-zero with an error on
\* stderr otherwise; exec kills it at the timeout, which rejects too.
DownloadOutcomes ==
    {[cause |-> "none", exit |-> "ok", stderr |-> <<>>, file |-> TRUE],
     [cause |-> "tooLong", exit |-> "ok", stderr |-> <<>>, file |-> FALSE],
     [cause |-> "tooLarge", exit |-> "ok", stderr |-> <<>>, file |-> FALSE],
     [cause |-> "private", exit |-> "fail",
      stderr |-> <<"error:", "private", "video">>, file |-> FALSE],
     [cause |-> "unavailable", exit |-> "fail",
      stderr |-> <<"error:", "video", "unavailable">>, file |-> FALSE],
     [cause |-> "network", exit |-> "fail",
      stderr |-> <<"error:", "unable", "to", "download">>, file |-> FALSE],
     [cause |-> "timeout", exit |-> "fail", stderr |-> <<>>, file |-> TRUE]}
NoDownload == [cause |-> "none", exit |-> "none", stderr |-> <<>>, file |-> FALSE]

DownloadFailedMessage ==
    <<"download", "failed", "video", "may", "be", "private", "or", "unavailable">>
NoFramesMessage == <<"could", "not", "extract", "frames", "from", "video">>
MkdirMessage == <<"eacces:", "permission", "denied,", "mkdir">>
NoContentMessage == <<"cannot", "read", "properties", "of", "undefined">>

PrivateText == "That video is private - paste a public URL."
TooLongText == "Video is too long - max 20 minutes."
UnavailableText == "Video unavailable. Make sure the URL is public."
GenericText == "Could not analyze that video. Make sure the URL is public and try again."

\* the catch block's chain of tests on err.message
Classify(msg) ==
    IF RegexTest({"private"}, msg) THEN PrivateText
    ELSE IF RegexTest({"1200", "duration", "too long"}, msg) THEN TooLongText
    ELSE IF RegexTest({"unavailable", "not available"}, msg) THEN UnavailableText
    ELSE GenericText

NoResponse ==
    [status |-> 0, error |-> "", analysis |-> "", platform |-> "",
     hasTranscript |-> FALSE, frameCount |-> 0]
ClientError(text) == [NoResponse EXCEPT !.status = 400, !.error = text]
ServerError(msg) == [NoResponse EXCEPT !.status = 500, !.error = Classify(msg)]

\* a .vtt file is the sequence of its lines, a line the sequence of its words;
\* an inline tag is a word that starts with "<"
VttTags == {"<c>", "</c>", "<00:00:01.000>"}
VttSpeech ==
    <<<<"WEBVTT">>, <<"Kind:", "captions">>, <<"Language:", "en">>, <<>>,
      <<"00:00:00.000", "-->", "00:00:02.000">>, <<"hello", "<c>", "world", "</c>">>,
      <<"NOTE", "x">>, <<"00:00:02.000", "-->", "00:00:04.000">>, <<"again">>>>
VttEmpty == <<<<"WEBVTT">>, <<"Kind:", "captions">>, <<"Language:", "en">>, <<>>>>
TimestampWords == {"00:00:00.000", "00:00:02.000"}

\* the filter of parseVTT: the line is kept
VttKeeps(line) ==
    /\ line # <<>>
    /\ line[1] \notin {"WEBVTT", "NOTE", "Kind:", "Language:"}
    /\ line[1] \notin TimestampWords

RECURSIVE JoinLines(_)
JoinLines(lines) ==
    IF lines = <<>> THEN <<>>
    ELSE (IF VttKeeps(Head(lines)) THEN Head(lines) ELSE <<>>) \o JoinLines(Tail(lines))

TranscriptLimit == 3000
NotTag(w) == w \notin VttTags
parseVTT(vtt) ==
    LET words == SelectSeq(JoinLines(vtt), NotTag)
    IN  SubSeq(words, 1, IF Len(words) < TranscriptLimit THEN Len(words) ELSE TranscriptLimit)

\* what the subtitle fetch can do
TranscriptOutcomes ==
    {[exit |-> "fail", file |-> FALSE, vtt |-> <<>>],
     [exit |-> "ok", file |-> FALSE, vtt |-> <<>>],
     [exit |-> "ok", file |-> TRUE, vtt |-> VttSpeech],
     [exit |-> "ok", file |-> TRUE, vtt |-> VttEmpty]}

\* what ffprobe can do: stdout is a number of seconds, or no number
DefaultDuration == 6000
ProbeOutcomes ==
    {[exit |-> "fail", stdout |-> "N/A"], [exit |-> "ok", stdout |-> "N/A"],
     [exit |-> "ok", stdout |-> "0.000000"], [exit |-> "ok", stdout |-> "2.000000"]}

\* parseFloat(stdout.trim()), in hundredths of a second; NaN is no number
parseFloat(s) ==
    IF s = "2.000000" THEN [nan |-> FALSE, val |-> 200]
    ELSE IF s = "0.000000" THEN [nan |-> FALSE, val |-> 0]
    ELSE [nan |-> TRUE, val |-> 0]

\* parseFloat(...) || 60
DurationOf_NoFallback(stdout) == parseFloat(stdout).val

DurationOf(stdout) ==
    LET f == parseFloat(stdout)
    IN  IF f.nan \/ f.val = 0 THEN DefaultDuration ELSE f.val

\* `frame${String(i).padStart(2, '0')}.jpg`: the name, as its two digits
FrameName(i) == <<i \div 10, i % 10>>
FrameOf(name) == 10 * name[1] + name[2]

\* a < b for two file names, as Array.prototype.sort compares strings
NameLess(a, b) == a[1] < b[1] \/ (a[1] = b[1] /\ a[2] < b[2])

RECURSIVE Reverse(_)
Reverse(s) == IF s = <<>> THEN <<>> ELSE Append(Reverse(Tail(s)), Head(s))

Rotate(s, n) == SubSeq(s, n + 1, Len(s)) \o SubSeq(s, 1, n)

\* the names of the frame files in S, in the order of their creation loop
NamesOf(S) ==
    SelectSeq(<<FrameName(0), FrameName(1), FrameName(2), FrameName(3),
                FrameName(4), FrameName(5), FrameName(6), FrameName(7)>>,
              LAMBDA name : FrameOf(name) \in S)

\* what fs.readdirSync(framesDir) returns: the names of the files there, in
\* an order the file system chooses (here: the ascending or the descending
\* order, rotated by up to three names)
ListingOrders == {"ascending", "descending"} \X (0..3)

Listing(S, order) ==
    LET names == IF order[1] = "ascending" THEN NamesOf(S) ELSE Reverse(NamesOf(S))
    IN  IF names = <<>> THEN <<>> ELSE Rotate(names, order[2] % Len(names))

\* Array.prototype.sort on the frame file names
RECURSIVE InsertName(_, _)
InsertName(name, sorted) ==
    IF sorted = <<>> THEN <<name>>
    ELSE IF NameLess(name, Head(sorted)) THEN <<name>> \o sorted
    ELSE <<Head(sorted)>> \o InsertName(name, Tail(sorted))

SortedNames_Unsorted(l) == l

RECURSIVE SortedNames(_)
SortedNames(l) ==
    IF l = <<>> THEN <<>> ELSE InsertName(Head(l), SortedNames(Tail(l)))

\* frameFiles.map(read or null).filter(Boolean): the frames read, in the order
\* of the names
RECURSIVE ReadFrames(_, _)
ReadFrames(names, unread) ==
    IF names = <<>> THEN <<>>
    ELSE (IF FrameOf(Head(names)) \in unread THEN <<>> ELSE <<FrameOf(Head(names))>>)
         \o ReadFrames(Tail(names), unread)

\* Math.max(0.5, (duration / frameCount) * i), then toFixed(2)
RoundDiv(n, d) == (2 * n + d) \div (2 * d)
HalfSecond == 50
FrameTime(d, i) ==
    LET t == RoundDiv(d * i, FrameCount)
    IN  IF t < HalfSecond THEN HalfSecond ELSE t

\* await Promise.all(framePromises) resumes: every promise carries
\* .catch(() => null), so a process that failed (it is not running and left no
\* file) does not reject the join
JoinReady_RejectsOnFailure(run, files) == run = {} \/ FrameIds \ (run \cup files) # {}
JoinReady(run, files) == run = {}

\* if (frameBuffers.length === 0) throw
NoFrames_UnlessAll(bufs) == Len(bufs) < FrameCount
NoFrames_Never(bufs) == FALSE
NoFrames(bufs) == Len(bufs) = 0

\* frameCount: frameBuffers.length
ResponseFrameCount_Requested(bufs) == FrameCount
ResponseFrameCount(bufs) == Len(bufs)

\* what the model call can do
ModelOutcomes ==
    {[ok |-> TRUE, blocks |-> 1, message |-> <<>>],
     [ok |-> TRUE, blocks |-> 0, message |-> <<>>],
     [ok |-> FALSE, blocks |-> 0, message |-> <<"529", "overloaded">>]}
NoModelResult == [ok |-> FALSE, blocks |-> 0, message |-> <<"none">>]

\* fs.rmSync(tempDir, {recursive: true, force: true}) returned (ok) or threw
DirAfterRm_Kept(exists, ok) == exists
DirAfterRm(exists, ok) == exists /\ ~ok

\* the end of the handler after the try block was entered: the response, then
\* finally.  dirNow, vf, sf, ff: the workspace as the step leaves it; tr: the
\* steps started so far.  rmSync of a directory that does not exist returns
\* without error (force).
FinishEffects_RmFirst == <<"rm", "respond">>
FinishEffects == <<"respond", "rm">>

Finish(stage, res, msg, dirNow, vf, sf, ff, tr) ==
    /\ vPc' = "done"
    /\ vTrace' = tr \o FinishEffects
    /\ endedAt' = stage
    /\ vRes' = res
    /\ errMessage' = msg
    /\ \E ok \in (IF dirNow THEN BOOLEAN ELSE {TRUE}) :
        /\ rmResult' = IF ok THEN "removed" ELSE "failed"
        /\ dirExists' = DirAfterRm(dirNow, ok)
        /\ videoFile' = (vf /\ ~ok)
        /\ subFile' = (sf /\ ~ok)
        /\ frameFiles' = IF ok THEN {} ELSE ff

\* the request arrives: validation, mkdirSync, and the download is started
AnalyzeRequest(u) ==
    /\ vPc = "idle"
    /\ vUrl' = u
    /\ IF ~u.defined \/ u.str = <<>>
       THEN /\ vRes' = ClientError("No URL provided")
            /\ vTrace' = <<"respond">>
            /\ vPc' = "done"
            /\ endedAt' = "validate"
            /\ UNCHANGED <<dirExists, videoFile, subFile, frameFiles, errMessage, rmResult>>
       ELSE IF detectPlatform(u.str) = "null"
       THEN /\ vRes' = ClientError("Please paste a YouTube, TikTok, or Instagram URL.")
            /\ vTrace' = <<"respond">>
            /\ vPc' = "done"
            /\ endedAt' = "validate"
            /\ UNCHANGED <<dirExists, videoFile, subFile, frameFiles, errMessage, rmResult>>
       ELSE \/ /\ dirExists' = TRUE
               /\ vTrace' = <<"mkdir", "download">>
               /\ vPc' = "download"
               /\ UNCHANGED <<videoFile, subFile, frameFiles, vRes, errMessage, endedAt,
                              rmResult>>
            \/ Finish("mkdir", ServerError(MkdirMessage), MkdirMessage,
                      FALSE, FALSE, FALSE, {}, <<"mkdir">>)
    /\ UNCHANGED <<running, transcript, duration, frameBuffers, modelCalls, download,
                   readable, modelResult, swallowed, frameTimes, emailVars, chatVars, workVars>>

\* the download process completed
AnalyzeDownloaded(o) ==
    /\ vPc = "download"
    /\ download' = o
    /\ IF o.exit = "fail"
       THEN Finish("download", ServerError(ExecError(DownloadCmd(vUrl.str), o.stderr)),
                   ExecError(DownloadCmd(vUrl.str), o.stderr),
                   dirExists, o.file, subFile, frameFiles, vTrace)
       ELSE IF ~o.file
       THEN Finish("download", ServerError(DownloadFailedMessage), DownloadFailedMessage,
                   dirExists, FALSE, subFile, frameFiles, vTrace)
       ELSE /\ videoFile' = TRUE
            /\ vTrace' = Append(vTrace, "transcript")
            /\ vPc' = "transcript"
            /\ UNCHANGED <<dirExists, subFile, frameFiles, vRes, errMessage, endedAt,
                           rmResult>>
    /\ UNCHANGED <<vUrl, running, transcript, duration, frameBuffers, modelCalls,
                   readable, modelResult, swallowed, frameTimes, emailVars, chatVars, workVars>>

\* the subtitle fetch completed; a failure leaves transcript = ''
AnalyzeTranscribed(o) ==
    /\ vPc = "transcript"
    /\ subFile' = o.file
    /\ transcript' = IF o.exit = "ok" /\ o.file THEN parseVTT(o.vtt) ELSE <<>>
    /\ swallowed' = IF o.exit = "ok" THEN swallowed ELSE swallowed \cup {"transcript"}
    /\ vTrace' = Append(vTrace, "probe")
    /\ vPc' = "probe"
    /\ UNCHANGED <<vUrl, dirExists, videoFile, frameFiles, running, duration,
                   frameBuffers, modelCalls, vRes, errMessage, endedAt, download,
                   readable, modelResult, rmResult, frameTimes, emailVars, chatVars, workVars>>

\* ffprobe completed; the 8 ffmpeg processes are started
AnalyzeProbed(o) ==
    /\ vPc = "probe"
    /\ duration' = IF o.exit = "ok" THEN DurationOf(o.stdout) ELSE DefaultDuration
    /\ swallowed' = IF o.exit # "ok" THEN swallowed \cup {"probe"}
                    ELSE IF parseFloat(o.stdout).nan THEN swallowed \cup {"unparsable"}
                    ELSE swallowed
    /\ frameTimes' = [i \in FrameIds |-> FrameTime(duration', i)]
    /\ running' = FrameIds
    /\ vTrace' = Append(vTrace, "frames")
    /\ vPc' = "frames"
    /\ UNCHANGED <<vUrl, dirExists, videoFile, subFile, frameFiles, transcript,
                   frameBuffers, modelCalls, vRes, errMessage, endedAt, download,
                   readable, modelResult, rmResult, emailVars, chatVars, workVars>>

\* ffmpeg process i completed (exit, error or timeout: .catch(() => null)),
\* having written its frame file or not
AnalyzeFrameDone(i, wrote) ==
    /\ vPc = "frames"
    /\ i \in running
    /\ running' = running \ {i}
    /\ frameFiles' = IF wrote THEN frameFiles \cup {i} ELSE frameFiles
    /\ UNCHANGED <<vPc, vUrl, dirExists, videoFile, subFile, transcript, duration,
                   frameBuffers, modelCalls, vRes, errMessage, endedAt, download,
                   readable, modelResult, rmResult, swallowed, frameTimes, vTrace,
                   emailVars, chatVars, workVars>>

\* Promise.all resolved: the frames are listed, sorted and read, and the model
\* is called, or no frame could be read
AnalyzeFramesRead ==
    /\ vPc = "frames"
    /\ JoinReady(running, frameFiles)
    /\ \E order \in ListingOrders :
          LET names == SortedNames(Listing(frameFiles, order))
          IN  \E unread \in SUBSET frameFiles :
                 /\ Cardinality(unread) <= MaxUnreadable
                 /\ readable' = frameFiles \ unread
                 /\ frameBuffers' = ReadFrames(names, unread)
    /\ IF NoFrames(frameBuffers')
       THEN /\ Finish("frames", ServerError(NoFramesMessage), NoFramesMessage,
                      dirExists, videoFile, subFile, frameFiles, Append(vTrace, "read"))
            /\ UNCHANGED modelCalls
       ELSE /\ modelCalls' = modelCalls + 1
            /\ vTrace' = vTrace \o <<"read", "model">>
            /\ vPc' = "model"
            /\ UNCHANGED <<dirExists, videoFile, subFile, frameFiles, vRes, errMessage,
                           endedAt, rmResult>>
    /\ UNCHANGED <<vUrl, running, transcript, duration, download, modelResult,
                   swallowed, frameTimes, emailVars, chatVars, workVars>>

\* the model call completed
AnalyzeModelDone(o) ==
    /\ vPc = "model"
    /\ modelResult' = o
    /\ IF ~o.ok
       THEN Finish("model", ServerError(o.message), o.message,
                   dirExists, videoFile, subFile, frameFiles, vTrace)
       ELSE IF o.blocks = 0
       THEN Finish("model", ServerError(NoContentMessage), NoContentMessage,
                   dirExists, videoFile, subFile, frameFiles, vTrace)
       ELSE Finish("success",
                   [NoResponse EXCEPT !.status = 200, !.analysis = "text",
                                      !.platform = detectPlatform(vUrl.str),
                                      !.hasTranscript = (transcript # <<>>),
                                      !.frameCount = ResponseFrameCount(frameBuffers)],
                   <<>>, dirExists, videoFile, subFile, frameFiles, vTrace)
    /\ UNCHANGED <<vUrl, running, transcript, duration, frameBuffers, modelCalls,
                   download, readable, swallowed, frameTimes, emailVars, chatVars, workVars>>

NextVideo ==
    \/ \E u \in UrlInputs : AnalyzeRequest(u)
    \/ \E o \in DownloadOutcomes : AnalyzeDownloaded(o)
    \/ \E o \in TranscriptOutcomes : AnalyzeTranscribed(o)
    \/ \E o \in ProbeOutcomes : AnalyzeProbed(o)
    \/ \E i \in FrameIds, wrote \in BOOLEAN : AnalyzeFrameDone(i, wrote)
    \/ AnalyzeFramesRead
    \/ \E o \in ModelOutcomes : AnalyzeModelDone(o)

\* ============================================ two requests, one tmpdir
Requests == {1, 2}
NoSession == <<>>

\* Math.random().toString(36).slice(2): a string of base-36 digits
Tokens == {<<k>> : k \in 1..MaxTokens}

\* Number.prototype.toString(36), as the sequence of its base-36 digits
RECURSIVE ToString36(_)
ToString36(n) ==
    IF n < 36 THEN <<n>> ELSE Append(ToString36(n \div 36), n % 36)

\* Math.random().toString(36).slice(2) + Date.now().toString(36)
SessionId(token, now) == token \o ToString36(now)

\* a millisecond passes
ClockTick ==
    /\ clock < MaxClock
    /\ clock' = clock + 1
    /\ UNCHANGED <<wPc, wToken, wAt, wDir, wSaw, tmpDirs, tmpFiles, emailVars, chatVars,
                   videoVars>>

\* request r arrives with a valid URL: sessionId, tempDir, mkdirSync (which
\* succeeds on a directory that exists: recursive), and the download starts
WorkStart(r, token) ==
    /\ wPc[r] = "idle"
    /\ wToken' = [wToken EXCEPT ![r] = token]
    /\ wAt' = [wAt EXCEPT ![r] = clock]
    /\ wDir' = [wDir EXCEPT ![r] = SessionId(token, clock)]
    /\ tmpDirs' = tmpDirs \cup {wDir'[r]}
    /\ wPc' = [wPc EXCEPT ![r] = "download"]
    /\ UNCHANGED <<clock, wSaw, tmpFiles, emailVars, chatVars, videoVars>>

\* the download of request r has completed and the handler lists its tempDir:
\* yt-dlp wrote into the directory (creating it if it was gone), or failed
\* because the directory was gone
WorkDownloaded(r) ==
    /\ wPc[r] = "download"
    /\ \/ /\ tmpDirs' = tmpDirs \cup {wDir[r]}
          /\ tmpFiles' = tmpFiles \cup {[dir |-> wDir[r], by |-> r]}
          /\ wSaw' = [wSaw EXCEPT ![r] = {f.by : f \in {g \in tmpFiles' : g.dir = wDir[r]}}]
       \/ /\ wDir[r] \notin tmpDirs
          /\ UNCHANGED <<tmpDirs, tmpFiles, wSaw>>
    /\ wPc' = [wPc EXCEPT ![r] = "cleanup"]
    /\ UNCHANGED <<clock, wToken, wAt, wDir, emailVars, chatVars, videoVars>>

\* finally: fs.rmSync(tempDir, { recursive: true, force: true })
WorkCleanup(r) ==
    /\ wPc[r] = "cleanup"
    /\ tmpDirs' = tmpDirs \ {wDir[r]}
    /\ tmpFiles' = {f \in tmpFiles : f.dir # wDir[r]}
    /\ wPc' = [wPc EXCEPT ![r] = "done"]
    /\ UNCHANGED <<clock, wToken, wAt, wDir, wSaw, emailVars, chatVars, videoVars>>

NextWork ==
    \/ ClockTick
    \/ \E r \in Requests, token \in Tokens : WorkStart(r, token)
    \/ \E r \in Requests : WorkDownloaded(r)
    \/ \E r \in Requests : WorkCleanup(r)

\* ================================================================== init
InitChat ==
    /\ chatPc = "idle"
    /\ chatReq = [kind |-> "undefined", length |-> 0]
    /\ chatStatus = 0
    /\ sseHeaders = FALSE
    /\ modelStreams = 0
    /\ emitted = <<>>
    /\ written = <<>>
    /\ ended = FALSE
    /\ destroyed = FALSE
    /\ chatOutcome = "none"

InitVideo ==
    /\ vPc = "idle"
    /\ vUrl = NoUrl
    /\ dirExists = FALSE
    /\ videoFile = FALSE
    /\ subFile = FALSE
    /\ frameFiles = {}
    /\ running = {}
    /\ transcript = <<>>
    /\ duration = DefaultDuration
    /\ frameBuffers = <<>>
    /\ modelCalls = 0
    /\ vRes = NoResponse
    /\ errMessage = <<>>
    /\ endedAt = "none"
    /\ download = NoDownload
    /\ readable = {}
    /\ modelResult = NoModelResult
    /\ rmResult = "none"
    /\ swallowed = {}
    /\ frameTimes = [i \in FrameIds |-> 0]
    /\ vTrace = <<>>

InitWork ==
    /\ clock = 0
    /\ wPc = [r \in Requests |-> "idle"]
    /\ wToken = [r \in Requests |-> NoSession]
    /\ wAt = [r \in Requests |-> 0]
    /\ wDir = [r \in Requests |-> NoSession]
    /\ wSaw = [r \in Requests |-> {}]
    /\ tmpDirs = {}
    /\ tmpFiles = {}

Init ==
    /\ log = <<>>
    /\ emailPc = "idle"
    /\ emailReq = Undefined
    /\ emailRes = [status |-> 0, body |-> ""]
    /\ emailConsole = "none"
    /\ InitChat
    /\ InitVideo
    /\ InitWork

InitEmailOnce ==
    /\ log \in InitialLogs
    /\ emailPc = "pending"
    /\ emailReq \in EmailInputs
    /\ emailRes = [status |-> 0, body |-> ""]
    /\ emailConsole = "none"
    /\ InitChat
    /\ InitVideo
    /\ InitWork

SpecEmail == Init /\ [][NextEmail]_vars
SpecEmailOnce == InitEmailOnce /\ [][NextEmailOnce]_vars
SpecChat == Init /\ [][NextChat]_vars
SpecVideo == Init /\ [][NextVideo]_vars
SpecWork == Init /\ [][NextWork]_vars

\* ================================================================ claims
\* the text fragments of the text-delta events of a stream, in order
RECURSIVE FragmentsOf(_)
FragmentsOf(evs) ==
    IF evs = <<>> THEN <<>>
    ELSE (IF Head(evs).type = "content_block_delta" /\ Head(evs).delta = "text_delta"
          THEN <<Head(evs).text>> ELSE <<>>) \o FragmentsOf(Tail(evs))

FramesOf(frags) == [i \in 1..Len(frags) |-> TextFrame(frags[i])]

RECURSIVE Count(_, _)
Count(c, s) == IF s = <<>> THEN 0 ELSE (IF Head(s) = c THEN 1 ELSE 0) + Count(c, Tail(s))

\* C2: when the model stream completes and the caller stayed connected, the
\* caller has received exactly the fragments of the text-delta events, in the
\* order the model emitted them, then [DONE] as the last frame, and the
\* response is ended.
C2_FragmentsInOrderThenDone ==
    (chatPc = "done" /\ chatOutcome = "complete" /\ ~destroyed)
        => /\ written = FramesOf(FragmentsOf(emitted)) \o <<DoneFrame>>
           /\ ended

C2_Witness ==
    /\ chatPc = "done" /\ chatOutcome = "complete" /\ ~destroyed
    /\ FragmentsOf(emitted) = <<"Hello", " there">>
    /\ Len(emitted) = 3

\* C3: when the model stream fails, after any number of fragments, and the
\* caller is connected, the response holds the fragments written so far, then
\* exactly one error frame, then exactly one [DONE], and is ended.
C3_ErrorThenDone ==
    (chatPc = "done" /\ chatOutcome = "error" /\ ~destroyed)
        => /\ written = FramesOf(FragmentsOf(emitted)) \o <<ErrorFrame, DoneFrame>>
           /\ ended

C3_Witness ==
    /\ chatPc = "done" /\ chatOutcome = "error" /\ ~destroyed
    /\ Len(FragmentsOf(emitted)) >= 1
    /\ written[Len(written) - 1] = ErrorFrame

\* C4: once the response is destroyed (the caller disconnected), no step of
\* the handler writes a frame or ends the response.
C4_NoWriteAfterDisconnect ==
    [][destroyed => (written' = written /\ ended' = ended)]_vars

C4_Witness ==
    /\ chatPc = "done" /\ destroyed
    /\ chatOutcome \in {"aborted", "error"}
    /\ Len(emitted) > Len(written)
    /\ written # <<>>

\* C5: a messages value that is not an array, or is an empty array, is
\* answered 400 with no event-stream header flushed, no model stream opened
\* and nothing written.
C5_InvalidMessagesRejected ==
    (chatPc # "idle" /\ (chatReq.kind # "array" \/ chatReq.length = 0))
        => /\ chatStatus = 400
           /\ chatPc = "done"
           /\ ~sseHeaders
           /\ modelStreams = 0
           /\ written = <<>>

C5_Witness ==
    /\ chatPc = "done" /\ chatStatus = 400
    /\ chatReq.kind = "array" /\ chatReq.length = 0

\* an address the claim calls invalid: absent, empty, no "@", or no "." after an "@"
ShapeInvalid(e) ==
    \/ ~e.defined
    \/ e.str = <<>>
    \/ "@" \notin Range(e.str)
    \/ ~\E i \in 1..Len(e.str), j \in 1..Len(e.str) :
            i < j /\ e.str[i] = "@" /\ e.str[j] = "."

\* C6: a request whose email is absent, empty, has no "@" or has no domain
\* dot is answered 400 and leaves the log file as it was.
C6_InvalidEmailRejected ==
    [][(emailPc = "pending" /\ ShapeInvalid(emailReq))
         => (emailRes'.status = 400 /\ log' = log)]_vars

C6_Witness ==
    /\ emailPc = "done" /\ emailRes.status = 400
    /\ "@" \in Range(emailReq.str)
    /\ "." \notin Range(emailReq.str)
    /\ log # <<>>

\* C7: a request whose email passes validation is answered 200 {success: true}
\* whether the append succeeded or threw; when it succeeded the log grew by
\* exactly one line: the timestamp, a tab, the address, a line feed.
C7_ValidEmailAlwaysSuccess ==
    [][(emailPc = "pending" /\ IsValidEmail(emailReq))
         => /\ emailRes' = [status |-> 200, body |-> "success: true"]
            /\ emailConsole' = "saved" =>
                  /\ log' = log \o ToISOString \o <<"TAB">> \o emailReq.str \o <<"LF">>
                  /\ Count("LF", log') = Count("LF", log) + 1
                  /\ Count("TAB", log') = Count("TAB", log) + 1]_vars

C7_Witness ==
    /\ emailPc = "done" /\ IsValidEmail(emailReq)
    /\ emailConsole = "failed"
    /\ emailRes.status = 200
    /\ log # <<>>

\* the download left a usable video file
Downloaded == download.exit = "ok" /\ download.file
\* the model call returned a response with a text block / failed
ModelAnswered == modelResult \in ModelOutcomes /\ modelResult.ok /\ modelResult.blocks >= 1
ModelFailed == modelResult \in ModelOutcomes /\ ~(modelResult.ok /\ modelResult.blocks >= 1)

\* C1 as claimed: once the handler has finished, the workspace does not exist.
C1_WorkspaceGone == vPc = "done" => ~dirExists

\* C1, amended: a validation rejection never creates the workspace; every
\* other exit path runs the recursive deletion before the handler finishes,
\* and the workspace exists afterwards only if that deletion failed.
C1_WorkspaceGoneUnlessRmFailed ==
    vPc = "done" =>
        /\ endedAt = "validate" => (~dirExists /\ rmResult = "none")
        /\ endedAt # "validate" => rmResult \in {"removed", "failed"}
        /\ dirExists => rmResult = "failed"
        /\ ~dirExists => (~videoFile /\ ~subFile /\ frameFiles = {})

C1_Witness ==
    /\ vPc = "done" /\ endedAt = "model" /\ vRes.status = 500
    /\ rmResult = "removed" /\ ~dirExists

\* C8: after a download that left a video file, no readable frame ends the
\* request with a 500 raised as "could not extract frames" without a model
\* call; n readable frames (1 <= n <= 8) and an answer of the model end it
\* with a 200 whose frameCount is n.
C8_FrameCount ==
    (vPc = "done" /\ Downloaded) =>
        /\ readable = {} =>
              /\ vRes.status = 500
              /\ errMessage = NoFramesMessage
              /\ modelCalls = 0
        /\ (readable # {} /\ ModelAnswered) =>
              /\ vRes.status = 200
              /\ vRes.frameCount = Cardinality(readable)
              /\ vRes.frameCount \in 1..FrameCount

C8_Witness ==
    /\ vPc = "done" /\ Downloaded /\ ModelAnswered
    /\ vRes.status = 200
    /\ vRes.frameCount = Cardinality(readable)
    /\ vRes.frameCount < FrameCount

\* C9 as claimed: a 500 carries the text that its failure message selects
\* (the first of "private", the duration ceiling, "unavailable" that it
\* holds, the generic text if none); a failure caused by an unavailable
\* video is reported as unavailable, and only a failure caused by a video
\* that is too long is reported as too long.
C9_Classification ==
    (vPc = "done" /\ vRes.status = 500) =>
        /\ vRes.error =
              IF RegexTest({"private"}, errMessage) THEN PrivateText
              ELSE IF RegexTest({"1200", "duration", "too long"}, errMessage)
                   THEN TooLongText
              ELSE IF RegexTest({"unavailable", "not available"}, errMessage)
                   THEN UnavailableText
              ELSE GenericText
        /\ download.cause = "unavailable" => vRes.error = UnavailableText
        /\ vRes.error = TooLongText => download.cause = "tooLong"

\* C10 as claimed: a 500 only when the download left no usable video file or
\* no frame was usable; a video file and one frame give a success.
C10_OnlyDownloadOrFramesFatal ==
    (vPc = "done" /\ endedAt # "validate") =>
        /\ vRes.status = 500 => (~Downloaded \/ readable = {})
        /\ (Downloaded /\ readable # {}) => vRes.status = 200

\* C10, amended: a 500 only when the workspace could not be created, the
\* download command failed or left no video file, no frame could be read, or
\* the model call failed or returned no content block; a video file, one
\* readable frame and an answer of the model give a success.
C10_FatalConditions ==
    (vPc = "done" /\ endedAt # "validate") =>
        /\ vRes.status \in {200, 500}
        /\ vRes.status = 500 =>
              \/ download = NoDownload
              \/ download.exit = "fail"
              \/ (download.exit = "ok" /\ ~download.file)
              \/ (Downloaded /\ readable = {})
              \/ ModelFailed
        /\ (Downloaded /\ readable # {} /\ ModelAnswered) => vRes.status = 200

C10_Witness ==
    /\ vPc = "done" /\ vRes.status = 500
    /\ Downloaded /\ readable # {} /\ ModelFailed

\* ---- C13 ------------------------------------------------------------------
SupportedHosts == {"youtube.com", "youtu.be", "tiktok.com", "instagram.com"}
UrlRejected(u) ==
    \/ ~u.defined
    \/ u.str = <<>>
    \/ \A k \in 1..Len(u.str) : u.str[k] \notin SupportedHosts

\* C13: a request whose URL is missing, or from which no supported platform is
\* recognised, is answered with status 400, and the handler has done nothing
\* else: no workspace was created or removed, no external process was
\* started, the model was not called.
C13_RejectedBeforeAnyWork ==
    (vPc = "done" /\ UrlRejected(vUrl)) =>
        /\ vRes.status = 400
        /\ vRes.error # ""
        /\ vTrace = <<"respond">>
        /\ ~dirExists /\ ~videoFile /\ ~subFile /\ frameFiles = {}
        /\ rmResult = "none"
        /\ download = NoDownload
        /\ running = {}
        /\ modelCalls = 0 /\ modelResult = NoModelResult

C13_Witness ==
    /\ vPc = "done"
    /\ vUrl.defined /\ vUrl.str # <<>> /\ UrlRejected(vUrl)
    /\ vRes.status = 400

\* ---- C14 ------------------------------------------------------------------
Pipeline == <<"mkdir", "download", "transcript", "probe", "frames", "read", "model">>
IsPrefix(s, u) == Len(s) <= Len(u) /\ s = SubSeq(u, 1, Len(s))
StepsOf(tr) == SelectSeq(tr, LAMBDA e : e \notin {"respond", "rm"})
Position(e, tr) == CHOOSE k \in 1..Len(tr) : tr[k] = e
Started(e) == \E k \in 1..Len(vTrace) : vTrace[k] = e

\* C14: the steps of one analysis start in the order workspace, download,
\* transcript, probe, frames, read, model, none twice and none skipped; a step
\* starts only when the one before it has completed (the step in progress is
\* the last one started, and the frame processes run only during the frames
\* step); after a fatal failure (the response was sent without the model
\* having answered) no later step starts; the model is called at most once,
\* and only after at least one frame was read.
C14_StepsInOrder ==
    /\ IsPrefix(StepsOf(vTrace), Pipeline)
    /\ vPc \in {"download", "transcript", "probe", "frames", "model"} =>
          vTrace[Len(vTrace)] = vPc
    /\ running # {} => vPc = "frames"
    /\ Started("respond") =>
          \A k \in (Position("respond", vTrace) + 1)..Len(vTrace) : vTrace[k] = "rm"
    /\ modelCalls = Count("model", vTrace)
    /\ modelCalls <= 1
    /\ modelCalls = 1 => (readable # {} /\ Len(frameBuffers) >= 1 /\ running = {})
    /\ (vPc = "done" /\ vRes.status = 500) =>
          /\ endedAt # "model" => modelCalls = 0
          /\ StepsOf(vTrace)[Len(StepsOf(vTrace))] =
                (IF endedAt = "frames" THEN "read" ELSE endedAt)

C14_Witness ==
    /\ vPc = "done" /\ vRes.status = 200
    /\ vTrace = Pipeline \o <<"respond", "rm">>
    /\ readable # FrameIds

\* ---- C18 ------------------------------------------------------------------
\* C18: every request gets exactly one response: none while the handler runs,
\* one when it has finished; its status is 400, 200 or 500; 400 exactly for a
\* rejected URL, 200 exactly when the model answered; a success carries no
\* error and an error no analysis; and the response is sent before the
\* workspace is removed.
C18_ExactlyOneResponse ==
    /\ vPc # "done" => (Count("respond", vTrace) = 0 /\ vRes = NoResponse)
    /\ vPc = "done" =>
          /\ Count("respond", vTrace) = 1
          /\ vRes.status \in {400, 200, 500}
          /\ vRes.status = 400 <=> UrlRejected(vUrl)
          /\ vRes.status = 200 <=> ModelAnswered
          /\ vRes.status = 200 => (vRes.error = "" /\ vRes.analysis # "")
          /\ vRes.status # 200 => (vRes.error # "" /\ vRes.analysis = "")
          /\ Count("rm", vTrace) = (IF vRes.status = 400 THEN 0 ELSE 1)
          /\ Started("rm") => Position("respond", vTrace) < Position("rm", vTrace)

C18_Witness ==
    /\ vPc = "done" /\ vRes.status = 500 /\ endedAt = "model"
    /\ Count("respond", vTrace) = 1 /\ Started("rm")

\* ---- C12 ------------------------------------------------------------------
\* the frame processes that have completed without leaving a file
FailedFrames == FrameIds \ (running \cup frameFiles)

\* C12: a failed transcript fetch leaves the transcript empty, the next step
\* (the probe) has started, and a success reports hasTranscript false; a
\* failed or unparsable probe leaves the duration at the 60 s default and the
\* frame processes have been started; failed frame processes do not end the
\* frames step, and with at least one frame read the request goes on to the
\* model call with the frames that were read; a request that had any of these
\* failures and whose model call answered ends with status 200.
C12_OptionalFailuresSwallowed ==
    /\ "transcript" \in swallowed =>
          /\ transcript = <<>>
          /\ Started("probe")
          /\ vPc = "done" /\ vRes.status = 200 => ~vRes.hasTranscript
    /\ (swallowed \cap {"probe", "unparsable"}) # {} =>
          /\ duration = DefaultDuration
          /\ Started("frames")
    /\ (vPc = "frames" /\ FailedFrames # {}) => ~Started("respond")
    /\ (Started("read") /\ readable # {}) =>
          /\ Started("model")
          /\ Len(frameBuffers) = Cardinality(readable)
    /\ (vPc = "done" /\ ModelAnswered) =>
          /\ vRes.status = 200
          /\ vRes.hasTranscript = (transcript # <<>>)
          /\ vRes.frameCount = Cardinality(readable)

C12_Witness ==
    /\ vPc = "done" /\ vRes.status = 200
    /\ swallowed = {"transcript", "unparsable"}
    /\ ~vRes.hasTranscript
    /\ duration = DefaultDuration
    /\ vRes.frameCount < FrameCount

\* ---- C15 ------------------------------------------------------------------
\* C15: the step that starts the frame extractions starts all 8 of them
\* before any completion is handled; while any of them is still running the
\* handler starts no further step (the frames directory is not read, nothing
\* is sent), whatever the others did; the directory is read in a step that
\* begins with none of them running.
C15_JoinWaitsForAll ==
    [][/\ (vPc = "probe" /\ vPc' # "probe") => (running' = FrameIds /\ frameFiles' = {})
       /\ running # {} =>
             /\ vTrace' = vTrace
             /\ frameBuffers' = frameBuffers
             /\ running' \subseteq running
       /\ (~Started("read") /\ Started("read")') => (vPc = "frames" /\ running = {})]_vars

C15_Witness ==
    /\ Started("read")
    /\ running = {}
    /\ readable # {}
    /\ readable # FrameIds

\* ---- C16 ------------------------------------------------------------------
\* C16: once the frames have been read, the frames handed to the model are
\* exactly the frames that could be read, in strictly ascending order of
\* frame index, whatever the order of completion and of the directory
\* listing and whichever processes failed.
C16_AttachmentsAscending ==
    Started("read") =>
        /\ \A j \in 1..Len(frameBuffers), k \in 1..Len(frameBuffers) :
              j < k => frameBuffers[j] < frameBuffers[k]
        /\ {frameBuffers[k] : k \in 1..Len(frameBuffers)} = readable

C16_Witness ==
    /\ vPc = "model"
    /\ Len(frameBuffers) >= 3
    /\ Len(frameBuffers) < FrameCount
    /\ frameBuffers[1] # 0

\* ---- C17 ------------------------------------------------------------------
\* C17 as claimed: once the frame processes have been started, timestamp i is
\* (duration / 8) * i for i = 1..7 and the first is 0.5 s; the timestamps are
\* strictly increasing (hence pairwise distinct) and all before the end.
C17_EvenlySpaced ==
    Started("frames") =>
        /\ frameTimes[0] = HalfSecond
        /\ \A i \in 1..(FrameCount - 1) : frameTimes[i] = RoundDiv(duration * i, FrameCount)
        /\ \A i \in FrameIds, j \in FrameIds : i < j => frameTimes[i] < frameTimes[j]
        /\ \A i \in FrameIds : frameTimes[i] < duration

\* ---- C19 ------------------------------------------------------------------
\* what a step added at the end of the log
Added(old, new) == SubSeq(new, Len(old) + 1, Len(new))
\* one line of one record: a single field separator, and a single line end,
\* which is its last character
WholeLine(s) ==
    /\ s # <<>>
    /\ s[Len(s)] = "LF"
    /\ Count("LF", s) = 1
    /\ Count("TAB", s) = 1

\* C19 as claimed: every step leaves what the log held in place and adds
\* nothing or exactly one whole line.
C19_GrowsByWholeLines ==
    [][/\ IsPrefix(log, log')
       /\ Added(log, log') = <<>> \/ WholeLine(Added(log, log'))]_vars

\* C19, amended: every step leaves what the log held in place; a rejected
\* request adds nothing; an accepted request adds its own entry, which is one
\* whole line (one separator, one line end), when the append succeeds, and a
\* proper prefix of that entry (possibly nothing) when the append fails.
C19_GrowsByLineOrFailedPrefix ==
    [][/\ IsPrefix(log, log')
       /\ (emailPc = "pending" /\ ~IsValidEmail(emailReq)) => log' = log
       /\ emailPc # "pending" => log' = log
       /\ (emailPc = "pending" /\ IsValidEmail(emailReq)) =>
             /\ WholeLine(Entry(emailReq))
             /\ emailConsole' = "saved" => Added(log, log') = Entry(emailReq)
             /\ emailConsole' = "failed" =>
                   /\ IsPrefix(Added(log, log'), Entry(emailReq))
                   /\ Added(log, log') # Entry(emailReq)]_vars

\* a whole entry was appended onto the partial line a failed append left
C19_Witness ==
    /\ emailPc = "done" /\ emailConsole = "saved"
    /\ Len(log) > Len(Entry(emailReq))
    /\ log[Len(log) - Len(Entry(emailReq))] # "LF"

\* ---- C11 ------------------------------------------------------------------
InFlight(r) == wPc[r] \in {"download", "cleanup"}
\* request r found another request's file in its directory, or its directory
\* or its own file was removed while it was still running
Disturbed(r) ==
    \/ wSaw[r] \ {r} # {}
    \/ InFlight(r) /\ wDir[r] \notin tmpDirs
    \/ InFlight(r) /\ r \in wSaw[r] /\ [dir |-> wDir[r], by |-> r] \notin tmpFiles

\* C11 as claimed: two requests in flight have different directories, and no
\* request is disturbed by another.
C11_WorkspacesExclusive ==
    /\ \A r \in Requests, q \in Requests :
          (r # q /\ InFlight(r) /\ InFlight(q)) => wDir[r] # wDir[q]
    /\ \A r \in Requests : ~Disturbed(r)

====
